---- MODULE Spec2Model ----
(***************************************************************************)
(* Model of main.py, the SQLite-backed productivity companion: the tasks   *)
(* table, the water_logs table, the system clock and the tool handlers     *)
(* add_task, complete_task, total_points, streak, achievements, log_water  *)
(* and clear_tasks.  Nothing in main.py serialises the handlers: each      *)
(* opens its own connection, a SELECT holds no lock once it has returned,  *)
(* and a write becomes visible when it is committed.  Calls therefore run  *)
(* on threads, and a handler is one action per access to the clock or to   *)
(* the database: a read of the clock, a SELECT, or a write together with   *)
(* its commit and the return of the call.  A statement may wait for the    *)
(* lock of another connection, so any step of another call, and midnight,  *)
(* can fall between two actions of one call.                               *)
(*                                                                         *)
(* Representation of values                                                *)
(*   - a Python float (duration_hours) is the IEEE-754 double m * 2^e,     *)
(*     written [hi, lo, e] with m = hi * 2^27 + lo < 2^53; arithmetic on   *)
(*     it is done on the bit string of m with round-half-to-even;          *)
(*   - a water amount is an integer number of half litres; doubles add and *)
(*     compare such values exactly;                                        *)
(*   - a text value that the code inspects (priority) is the sequence of   *)
(*     its character codes;                                                *)
(*   - a date string "YYYY-MM-DD" is the tuple <<Y, M, D>>; the fixed      *)
(*     width, zero padded text compares as the tuple does, field by field; *)
(*   - created_at "YYYY-MM-DD HH:MM:SS" is <<Y, M, D, secondOfDay>>.       *)
(***************************************************************************)
EXTENDS Integers, Sequences, FiniteSets, TLC

VARIABLES
    tasks,       \* table tasks: id -> row
    seq,         \* sqlite_sequence entry of tasks: largest id ever assigned
    water_logs,  \* table water_logs: set of rows [log_date, water_liters]
    today,       \* system clock, as the proleptic Gregorian ordinal of the day
    result,      \* the last call that returned and the value it returned
    pc,          \* per thread: the call in flight and what it has read so far
    issued,      \* history: id -> points of every row ever inserted into tasks
    calls        \* history: the number of calls that have returned, modulo 2

vars == <<tasks, seq, water_logs, today, result, pc, issued, calls>>

\* ---------------------------------------------------------------------------
\* Bounds of the model
\* ---------------------------------------------------------------------------
MaxTasks == 3        \* add_task calls in Spec and SpecStreak
MaxDay == 2          \* days the clock advances in SpecStreak
MaxAllTasks == 2     \* add_task calls in SpecAll
MaxAllWater == 1     \* largest water_liters (half litres) a call starts for in SpecAll
MaxWater == 3        \* largest |water_liters| (half litres) a call starts for in SpecWater
MaxWaterDay == 1     \* days the clock advances in SpecWater
MaxScoreTasks == 2   \* add_task calls in SpecScore
MaxStreakDays == 6   \* days the clock advances in SpecDaily

\* ---------------------------------------------------------------------------
\* Natural numbers as little-endian bit strings (for 53-bit mantissas)
\* ---------------------------------------------------------------------------
RECURSIVE NatBits(_)
NatBits(n) == IF n = 0 THEN <<>> ELSE <<n % 2>> \o NatBits(n \div 2)

RECURSIVE BitsNat(_)
BitsNat(b) == IF b = <<>> THEN 0 ELSE b[1] + 2 * BitsNat(Tail(b))

Zeros(k) == [i \in 1..k |-> 0]

PadTo(b, w) == b \o Zeros(w - Len(b))

RECURSIVE Trim(_)
Trim(b) == IF b = <<>> THEN <<>>
           ELSE IF b[Len(b)] = 0 THEN Trim(SubSeq(b, 1, Len(b) - 1)) ELSE b

RECURSIVE AddCarry(_, _, _)
AddCarry(a, b, c) ==
    IF a = <<>> /\ b = <<>> THEN (IF c = 0 THEN <<>> ELSE <<c>>)
    ELSE LET x == IF a = <<>> THEN 0 ELSE a[1]
             y == IF b = <<>> THEN 0 ELSE b[1]
             s == x + y + c
         IN  <<s % 2>> \o AddCarry(IF a = <<>> THEN <<>> ELSE Tail(a),
                                   IF b = <<>> THEN <<>> ELSE Tail(b),
                                   s \div 2)

AddBits(a, b) == AddCarry(a, b, 0)

ShiftL(b, k) == IF b = <<>> THEN <<>> ELSE Zeros(k) \o b

ShiftR(b, k) == IF k >= Len(b) THEN <<>> ELSE SubSeq(b, k + 1, Len(b))

\* ---------------------------------------------------------------------------
\* IEEE-754 double arithmetic on non-negative finite values
\* ---------------------------------------------------------------------------
Mantissa == 53

\* the exact value bits * 2^e
Real(bits, e) == [m |-> Trim(bits), e |-> e]

\* the double [hi, lo, e] as an exact value
Double(d) == Real(PadTo(NatBits(d.lo), 27) \o NatBits(d.hi), d.e)

\* round an exact value to the nearest double, ties to even
RoundDouble(x) ==
    LET L    == Len(x.m)
        drop == L - Mantissa
    IN  IF drop <= 0 THEN x
        ELSE LET q      == SubSeq(x.m, drop + 1, L)
                 guard  == x.m[drop]
                 sticky == \E i \in 1..(drop - 1) : x.m[i] = 1
                 up     == guard = 1 /\ (sticky \/ q[1] = 1)
                 r      == IF up THEN AddBits(q, <<1>>) ELSE q
             IN  IF Len(r) > Mantissa
                 THEN Real(Tail(r), x.e + drop + 1)
                 ELSE Real(r, x.e + drop)

\* float * 10
FloatTimes10(x) == RoundDouble(Real(AddBits(ShiftL(x.m, 3), ShiftL(x.m, 1)), x.e))

\* float + n for an int n >= 0 (n is converted to float, exactly)
FloatPlusInt(x, n) ==
    IF x.e >= 0
    THEN RoundDouble(Real(AddBits(ShiftL(x.m, x.e), NatBits(n)), 0))
    ELSE RoundDouble(Real(AddBits(x.m, ShiftL(NatBits(n), 0 - x.e)), x.e))

\* int(x): truncation toward zero
IntOfFloat(x) ==
    IF x.e >= 0 THEN BitsNat(ShiftL(x.m, x.e)) ELSE BitsNat(ShiftR(x.m, 0 - x.e))

\* ---------------------------------------------------------------------------
\* Text
\* ---------------------------------------------------------------------------
\* str.lower() on ASCII text
Lower(s) == [i \in DOMAIN s |-> IF s[i] >= 65 /\ s[i] <= 90 THEN s[i] + 32 ELSE s[i]]

STR_high == <<104, 105, 103, 104>>       \* "high"

\* ---------------------------------------------------------------------------
\* Calendar (datetime.date)
\* ---------------------------------------------------------------------------
IsLeap(y) == y % 4 = 0 /\ (y % 100 # 0 \/ y % 400 = 0)

DaysInMonth(y, m) ==
    IF m = 2 THEN (IF IsLeap(y) THEN 29 ELSE 28)
    ELSE IF m \in {4, 6, 9, 11} THEN 30 ELSE 31

DaysBeforeYear(y) ==
    (y - 1) * 365 + (y - 1) \div 4 - (y - 1) \div 100 + (y - 1) \div 400

RECURSIVE DaysBeforeMonth(_, _)
DaysBeforeMonth(y, m) ==
    IF m = 1 THEN 0 ELSE DaysBeforeMonth(y, m - 1) + DaysInMonth(y, m - 1)

\* date.toordinal()
ToOrdinal(d) == DaysBeforeYear(d[1]) + DaysBeforeMonth(d[1], d[2]) + d[3]

\* date.fromordinal(n)
FromOrdinal(n) ==
    LET n0   == n - 1
        n400 == n0 \div 146097
        r400 == n0 % 146097
        n100 == r400 \div 36524
        r100 == r400 % 36524
        n4   == r100 \div 1461
        r4   == r100 % 1461
        n1   == r4 \div 365
        r1   == r4 % 365
        year == n400 * 400 + 1 + n100 * 100 + n4 * 4 + n1
    IN  IF n1 = 4 \/ n100 = 4 THEN <<year - 1, 12, 31>>
        ELSE LET m0    == (r1 + 50) \div 32
                 prec0 == DaysBeforeMonth(year, m0)
                 month == IF prec0 > r1 THEN m0 - 1 ELSE m0
                 prec  == DaysBeforeMonth(year, month)
             IN  <<year, month, r1 - prec + 1>>

\* text order of two "YYYY-MM-DD" strings: a < b
DateLess(a, b) ==
    \/ a[1] < b[1]
    \/ a[1] = b[1] /\ a[2] < b[2]
    \/ a[1] = b[1] /\ a[2] = b[2] /\ a[3] < b[3]

\* the day the model's clock starts; the window that follows crosses a leap day
Epoch == ToOrdinal(<<2024, 2, 27>>)

\* datetime.now().strftime("%Y-%m-%d %H:%M:%S") at second tod of day n
Strftime(n, tod) == FromOrdinal(n) \o <<tod>>

\* str(date.today())
IsoToday(n) == FromOrdinal(n)

\* substr(created_at, 1, 10)
Substr10(created_at) == SubSeq(created_at, 1, 3)

\* datetime.strptime(day_str, "%Y-%m-%d").date(), a date being its ordinal
Strptime(day_str) == ToOrdinal(day_str)

\* ---------------------------------------------------------------------------
\* Inputs
\* ---------------------------------------------------------------------------
D_0      == [hi |-> 0,        lo |-> 0,        e |-> 0]      \* 0.0
D_0_1m   == [hi |-> 53687091, lo |-> 26843545, e |-> -56]    \* 0.09999999999999999
D_0_1    == [hi |-> 53687091, lo |-> 26843546, e |-> -56]    \* 0.1
D_0_25   == [hi |-> 33554432, lo |-> 0,        e |-> -54]    \* 0.25
D_0_3    == [hi |-> 40265318, lo |-> 53687091, e |-> -54]    \* 0.3
D_1_5    == [hi |-> 50331648, lo |-> 0,        e |-> -52]    \* 1.5
D_2_5    == [hi |-> 41943040, lo |-> 0,        e |-> -51]    \* 2.5
D_5      == [hi |-> 41943040, lo |-> 0,        e |-> -50]    \* 5.0
D_10     == [hi |-> 41943040, lo |-> 0,        e |-> -49]    \* 10.0

P_high   == <<104, 105, 103, 104>>            \* "high"
P_High   == <<72, 105, 103, 104>>             \* "High"
P_HIGH   == <<72, 73, 71, 72>>                \* "HIGH"
P_Medium == <<77, 101, 100, 105, 117, 109>>   \* "Medium", the default
P_low    == <<108, 111, 119>>                 \* "low"
P_highx  == <<104, 105, 103, 104, 32>>        \* "high "

\* seconds of the day at which a call may happen: 12:00:00 and 23:59:59
Noon == 12 * 3600
LastSecond == 24 * 3600 - 1

\* ---------------------------------------------------------------------------
\* SQL statements
\* ---------------------------------------------------------------------------
MaxRowid(t) == IF DOMAIN t = {} THEN 0
               ELSE CHOOSE i \in DOMAIN t : \A j \in DOMAIN t : j <= i

\* variant: the rowid of a plain INTEGER PRIMARY KEY, without AUTOINCREMENT
NextRowidPlain(t, s) == MaxRowid(t) + 1

\* the rowid an INTEGER PRIMARY KEY AUTOINCREMENT column gives the next row:
\* one more than the largest rowid the table has ever held
NextRowid(t, s) == (IF MaxRowid(t) > s THEN MaxRowid(t) ELSE s) + 1

\* INSERT INTO tasks (...) VALUES (..., 0, points)
InsertTask(t, id, priority, duration_hours, created_at, points) ==
    [i \in DOMAIN t \cup {id} |->
        IF i = id
        THEN [priority |-> priority, duration_hours |-> duration_hours,
              created_at |-> created_at, completed |-> 0, points |-> points]
        ELSE t[i]]

\* variant: a missing row read as a pending task worth nothing
SelectTaskDefault(t, task_id) ==
    IF task_id \in DOMAIN t
    THEN <<<<t[task_id].completed, t[task_id].points>>>>
    ELSE <<<<0, 0>>>>

\* SELECT completed, points FROM tasks WHERE id=? ; fetchone()
SelectTask(t, task_id) ==
    IF task_id \in DOMAIN t
    THEN <<<<t[task_id].completed, t[task_id].points>>>>
    ELSE <<>>

\* variant: UPDATE tasks SET completed=1, points=points+5 WHERE id=?
UpdateCompletedBonus(t, task_id) ==
    [i \in DOMAIN t |->
        IF i = task_id
        THEN [t[i] EXCEPT !.completed = 1, !.points = t[i].points + 5] ELSE t[i]]

\* UPDATE tasks SET completed=1 WHERE id=?
UpdateCompleted(t, task_id) ==
    [i \in DOMAIN t |-> IF i = task_id THEN [t[i] EXCEPT !.completed = 1] ELSE t[i]]

\* DELETE FROM tasks
DeleteTasks(t) == [i \in {} |-> i]

\* SELECT SUM(points) FROM tasks WHERE completed=1 ; the empty sum is NULL
RECURSIVE SumPoints(_, _)
SumPoints(t, ids) ==
    IF ids = {} THEN 0
    ELSE LET i == CHOOSE j \in ids : TRUE
         IN  t[i].points + SumPoints(t, ids \ {i})

\* variant: SELECT SUM(points) FROM tasks, without the WHERE clause
SelectSumAllPoints(t) ==
    IF DOMAIN t = {} THEN [null |-> TRUE, value |-> 0]
    ELSE [null |-> FALSE, value |-> SumPoints(t, DOMAIN t)]

SelectSumPoints(t) ==
    LET ids == {i \in DOMAIN t : t[i].completed = 1}
    IN  IF ids = {} THEN [null |-> TRUE, value |-> 0]
        ELSE [null |-> FALSE, value |-> SumPoints(t, ids)]

\* SELECT DISTINCT substr(created_at,1,10) as day FROM tasks
\*   WHERE completed=1 ORDER BY day DESC
\* variant: ORDER BY day ASC
RECURSIVE OrderAsc(_)
OrderAsc(S) ==
    IF S = {} THEN <<>>
    ELSE LET mn == CHOOSE x \in S : \A y \in S : ~DateLess(y, x)
         IN  <<mn>> \o OrderAsc(S \ {mn})

RECURSIVE OrderDesc(_)
OrderDesc(S) ==
    IF S = {} THEN <<>>
    ELSE LET mx == CHOOSE x \in S : \A y \in S : ~DateLess(x, y)
         IN  <<mx>> \o OrderDesc(S \ {mx})

SelectCompletedDays(t) ==
    OrderDesc({Substr10(t[i].created_at) : i \in {j \in DOMAIN t : t[j].completed = 1}})

\* the threshold of `total >= 2.5`, in half litres
Excellent == 5

\* SELECT ... FROM water_logs WHERE log_date=?
SelectWater(w, log_date) == {r \in w : r.log_date = log_date}

\* INSERT INTO water_logs(log_date, water_liters) VALUES (?,?)
InsertWater(w, log_date, amount) ==
    w \cup {[log_date |-> log_date, water_liters |-> amount]}

\* UPDATE water_logs SET water_liters = water_liters + ? WHERE log_date=?
UpdateWater(w, log_date, amount) ==
    {IF r.log_date = log_date
     THEN [r EXCEPT !.water_liters = r.water_liters + amount] ELSE r : r \in w}

\* ---------------------------------------------------------------------------
\* Queries (read-only tools)
\* ---------------------------------------------------------------------------
\* points = int(duration_hours * 10 + (5 if priority.lower() == "high" else 0))
Points(duration_hours, priority) ==
    IntOfFloat(FloatPlusInt(FloatTimes10(Double(duration_hours)),
                            IF Lower(priority) = STR_high THEN 5 ELSE 0))

\* total_points()["total_points"]
total_points ==
    LET s == SelectSumPoints(tasks)
    IN  IF s.null \/ s.value = 0 THEN 0 ELSE s.value

RECURSIVE StreakLoop(_, _, _)
StreakLoop(days, i, n) ==
    IF i >= Len(days) THEN n
    ELSE IF Strptime(days[i + 1]) = today - i
         THEN StreakLoop(days, i + 1, n + 1)
         ELSE n

\* streak()["current_streak_days"]
streak == StreakLoop(SelectCompletedDays(tasks), 0, 0)

BadgeRookie == "Rookie Productivity: Earn 50 points"
BadgePro    == "Pro Productivity: Earn 100 points"
Badge3Day   == "3-Day Streak"
Badge7Day   == "7-Day Streak"
KeepGoing   == "Keep being productive and hydrated!"

\* variant: thresholds compared with > in place of >=
UnlockedStrict(total, streak_days) ==
    LET u1 == IF total > 50 THEN <<BadgeRookie>> ELSE <<>>
        u2 == IF total > 100 THEN Append(u1, BadgePro) ELSE u1
        u3 == IF streak_days > 3 THEN Append(u2, Badge3Day) ELSE u2
        u4 == IF streak_days > 7 THEN Append(u3, Badge7Day) ELSE u3
    IN  IF u4 = <<>> THEN <<KeepGoing>> ELSE u4

\* achievements()["achievements_unlocked"]
Unlocked(total, streak_days) ==
    LET u1 == IF total >= 50 THEN <<BadgeRookie>> ELSE <<>>
        u2 == IF total >= 100 THEN Append(u1, BadgePro) ELSE u1
        u3 == IF streak_days >= 3 THEN Append(u2, Badge3Day) ELSE u2
        u4 == IF streak_days >= 7 THEN Append(u3, Badge7Day) ELSE u3
    IN  IF u4 = <<>> THEN <<KeepGoing>> ELSE u4

\* the ids of the completed rows of the task table
Completed(t) == {i \in DOMAIN t : t[i].completed = 1}

\* ---------------------------------------------------------------------------
\* State machine
\* ---------------------------------------------------------------------------
Threads == {1, 2}

Idle == [op |-> "idle"]

Init ==
    /\ tasks = [i \in {} |-> i]
    /\ seq = 0
    /\ water_logs = {}
    /\ today = Epoch
    /\ result = [op |-> "init"]
    /\ pc = [t \in Threads |-> Idle]
    /\ issued = [i \in {} |-> i]
    /\ calls = 0

\* the call of thread th returns r; `alone` of a call still in flight records
\* that no other call has returned since it began
Return(th, r) ==
    /\ result' = r
    /\ calls' = 1 - calls
    /\ pc' = [t \in Threads |->
                IF t = th \/ pc[t].op = "idle" THEN Idle
                ELSE [pc[t] EXCEPT !.alone = FALSE]]

\* add_task, lines 49-50: the clock is read and the points are computed
add_task(th, duration_hours, priority, tod) ==
    /\ pc[th].op = "idle"
    /\ pc' = [pc EXCEPT ![th] = [op |-> "add_task",
                                 duration_hours |-> duration_hours,
                                 priority |-> priority,
                                 created_at |-> Strftime(today, tod),
                                 points |-> Points(duration_hours, priority),
                                 alone |-> TRUE]]
    /\ UNCHANGED <<tasks, seq, water_logs, today, result, issued, calls>>

\* add_task, lines 52-58: the INSERT, its commit and the return
add_task_insert(th) ==
    LET id == NextRowid(tasks, seq)
    IN  /\ pc[th].op = "add_task"
        /\ tasks' = InsertTask(tasks, id, pc[th].priority, pc[th].duration_hours,
                               pc[th].created_at, pc[th].points)
        /\ seq' = id
        /\ issued' = [i \in DOMAIN issued \cup {id} |->
                         IF i = id THEN pc[th].points ELSE issued[i]]
        /\ Return(th, [op |-> "add_task", msg |-> "added",
                       points |-> pc[th].points])
        /\ UNCHANGED <<water_logs, today>>

\* variant: complete_task without the `if row[0] == 1` return
complete_task_again(th, task_id) ==
    LET row == SelectTask(tasks, task_id)
    IN  /\ pc[th].op = "idle"
        /\ IF row = <<>>
           THEN Return(th, [op |-> "complete_task", task_id |-> task_id,
                            msg |-> "Task not found.", points |-> 0,
                            alone |-> TRUE])
           ELSE /\ pc' = [pc EXCEPT ![th] = [op |-> "complete_task",
                                             task_id |-> task_id,
                                             points |-> row[1][2], alone |-> TRUE]]
                /\ UNCHANGED <<result, calls>>
        /\ UNCHANGED <<tasks, seq, water_logs, today, issued>>

\* complete_task, lines 84-90: the SELECT and the two early returns
complete_task(th, task_id) ==
    LET row == SelectTask(tasks, task_id)
    IN  /\ pc[th].op = "idle"
        /\ IF row = <<>>
           THEN Return(th, [op |-> "complete_task", task_id |-> task_id,
                            msg |-> "Task not found.", points |-> 0,
                            alone |-> TRUE])
           ELSE IF row[1][1] = 1
           THEN Return(th, [op |-> "complete_task", task_id |-> task_id,
                            msg |-> "Task already completed.", points |-> 0,
                            alone |-> TRUE])
           ELSE /\ pc' = [pc EXCEPT ![th] = [op |-> "complete_task",
                                             task_id |-> task_id,
                                             points |-> row[1][2], alone |-> TRUE]]
                /\ UNCHANGED <<result, calls>>
        /\ UNCHANGED <<tasks, seq, water_logs, today, issued>>

\* complete_task, lines 91-93: the UPDATE, its commit and the return
complete_task_update(th) ==
    /\ pc[th].op = "complete_task"
    /\ tasks' = UpdateCompleted(tasks, pc[th].task_id)
    /\ Return(th, [op |-> "complete_task", task_id |-> pc[th].task_id,
                   msg |-> "completed! You earned", points |-> pc[th].points,
                   alone |-> pc[th].alone])
    /\ UNCHANGED <<seq, water_logs, today, issued>>

\* log_water, lines 166-167: the date, read from the clock when none is given
log_water(th, amount_liters, date_arg) ==
    LET log_date == IF date_arg = <<>> THEN IsoToday(today) ELSE date_arg
    IN  /\ pc[th].op = "idle"
        /\ pc' = [pc EXCEPT ![th] = [op |-> "log_water", at |-> "date",
                                     amount |-> amount_liters, date |-> log_date,
                                     record |-> FALSE, alone |-> TRUE]]
        /\ UNCHANGED <<tasks, seq, water_logs, today, result, issued, calls>>

\* log_water, lines 168-170: the SELECT id
log_water_select(th) ==
    /\ pc[th].op = "log_water"
    /\ pc[th].at = "date"
    /\ pc' = [pc EXCEPT ![th].at = "record",
                        ![th].record = SelectWater(water_logs, pc[th].date) # {}]
    /\ UNCHANGED <<tasks, seq, water_logs, today, result, issued, calls>>

\* log_water, lines 171-177: INSERT or UPDATE, SELECT water_liters, commit and
\* return; the INSERT fails on UNIQUE(log_date) when the date has got a row
\* since the SELECT id, and the call then raises with nothing written
log_water_write(th) ==
    LET log_date == pc[th].date
        amount   == pc[th].amount
        w        == IF pc[th].record
                    THEN UpdateWater(water_logs, log_date, amount)
                    ELSE InsertWater(water_logs, log_date, amount)
        total    == (CHOOSE r \in SelectWater(w, log_date) : TRUE).water_liters
    IN  /\ pc[th].op = "log_water"
        /\ pc[th].at = "record"
        /\ IF ~pc[th].record /\ SelectWater(water_logs, log_date) # {}
           THEN /\ UNCHANGED water_logs
                /\ Return(th, [op |-> "log_water", amount |-> amount,
                               date |-> log_date, status |-> "IntegrityError",
                               alone |-> pc[th].alone])
           ELSE /\ water_logs' = w
                /\ Return(th, [op |-> "log_water", amount |-> amount,
                               date |-> log_date, total_water |-> total,
                               status |-> IF total >= Excellent
                                          THEN "Excellent hydration!"
                                          ELSE "Drink more water.",
                               alone |-> pc[th].alone])
        /\ UNCHANGED <<tasks, seq, today, issued>>

\* streak, lines 127-130: the SELECT of the days
streak_select(th) ==
    /\ pc[th].op = "idle"
    /\ pc' = [pc EXCEPT ![th] = [op |-> "streak",
                                 days |-> SelectCompletedDays(tasks),
                                 alone |-> TRUE]]
    /\ UNCHANGED <<tasks, seq, water_logs, today, result, issued, calls>>

\* streak, lines 131-139: date.today(), the walk over the days and the return
streak_return(th) ==
    /\ pc[th].op = "streak"
    /\ Return(th, [op |-> "streak",
                   current_streak_days |-> StreakLoop(pc[th].days, 0, 0),
                   today |-> today, alone |-> pc[th].alone])
    /\ UNCHANGED <<tasks, seq, water_logs, today, issued>>

\* achievements, line 146: total_points()
achievements(th) ==
    /\ pc[th].op = "idle"
    /\ pc' = [pc EXCEPT ![th] = [op |-> "achievements", at |-> "total",
                                 total |-> total_points, days |-> <<>>,
                                 alone |-> TRUE]]
    /\ UNCHANGED <<tasks, seq, water_logs, today, result, issued, calls>>

\* achievements, line 147, in streak(): lines 127-130, the SELECT of the days
achievements_days(th) ==
    /\ pc[th].op = "achievements"
    /\ pc[th].at = "total"
    /\ pc' = [pc EXCEPT ![th].at = "days", ![th].days = SelectCompletedDays(tasks)]
    /\ UNCHANGED <<tasks, seq, water_logs, today, result, issued, calls>>

\* achievements, line 147, in streak(): lines 131-139, date.today() and the
\* walk over the days; then lines 148-159
achievements_return(th) ==
    /\ pc[th].op = "achievements"
    /\ pc[th].at = "days"
    /\ LET streak_days == StreakLoop(pc[th].days, 0, 0)
       IN  Return(th, [op |-> "achievements",
                       unlocked |-> Unlocked(pc[th].total, streak_days),
                       total |-> pc[th].total, streak_days |-> streak_days,
                       today |-> today, alone |-> pc[th].alone])
    /\ UNCHANGED <<tasks, seq, water_logs, today, issued>>

\* variant: a reset of every table and of the id counter
clear_all(th) ==
    /\ pc[th].op = "idle"
    /\ tasks' = DeleteTasks(tasks)
    /\ water_logs' = {}
    /\ seq' = 0
    /\ Return(th, [op |-> "clear_tasks", msg |-> "All tasks cleared."])
    /\ UNCHANGED <<today, issued>>

clear_tasks(th) ==
    /\ pc[th].op = "idle"
    /\ tasks' = DeleteTasks(tasks)
    /\ Return(th, [op |-> "clear_tasks", msg |-> "All tasks cleared."])
    /\ UNCHANGED <<seq, water_logs, today, issued>>

\* midnight passes
Tick ==
    /\ today' = today + 1
    /\ UNCHANGED <<tasks, seq, water_logs, result, pc, issued, calls>>

\* a new call starts on the first thread that is free
Free(th) == pc[th].op = "idle" /\ \A t \in Threads : t < th => pc[t].op # "idle"

\* a stored task was created on the current day
AddedToday == \E i \in DOMAIN tasks : Substr10(tasks[i].created_at) = IsoToday(today)

\* the add_task calls that have read the clock and not yet inserted
Adding == Cardinality({t \in Threads : pc[t].op = "add_task"})

\* ids a caller may pass: every id ever assigned, and two that never were
TaskIds == 0..(seq + 1)

\* the total a log_water call would leave for its date
WaterAfter(amount_liters, date_arg) ==
    LET log_date == IF date_arg = <<>> THEN IsoToday(today) ELSE date_arg
        record   == SelectWater(water_logs, log_date)
    IN  IF record = {} THEN amount_liters
        ELSE (CHOOSE r \in record : TRUE).water_liters + amount_liters

\* --- Spec: the task life cycle ---
TaskInputs == {<<D_0_25, P_low>>, <<D_2_5, P_High>>}

AddTask ==
    seq + Adding < MaxTasks /\ \E th \in Threads, in \in TaskInputs :
        Free(th) /\ add_task(th, in[1], in[2], Noon)
AddTaskInsert == \E th \in Threads : add_task_insert(th)
CompleteTask == \E th \in Threads, id \in TaskIds : Free(th) /\ complete_task(th, id)
CompleteTaskUpdate == \E th \in Threads : complete_task_update(th)
ClearTasks == \E th \in Threads : Free(th) /\ clear_tasks(th)

Next == AddTask \/ AddTaskInsert \/ CompleteTask \/ CompleteTaskUpdate \/ ClearTasks

Spec == Init /\ [][Next]_vars

\* --- SpecStreak: tasks over several days, added while the day has none, the
\* --- newest one being completed
CompleteTaskStreak ==
    seq > 0 /\ \E th \in Threads : Free(th) /\ complete_task(th, seq)
AddTaskStreak ==
    /\ seq + Adding < MaxTasks
    /\ ~AddedToday
    /\ \E th \in Threads : Free(th) /\ add_task(th, D_2_5, P_low, Noon)
StreakSelect == \E th \in Threads : Free(th) /\ streak_select(th)
StreakReturn == \E th \in Threads : streak_return(th)
NextDay == today < Epoch + MaxDay /\ Tick

NextStreak ==
    \/ AddTaskStreak \/ AddTaskInsert \/ CompleteTaskStreak \/ CompleteTaskUpdate
    \/ ClearTasks \/ StreakSelect \/ StreakReturn \/ NextDay

SpecStreak == Init /\ [][NextStreak]_vars

\* --- SpecAll: every writing handler, few tasks ---
AddTaskAll ==
    seq + Adding < MaxAllTasks /\ \E th \in Threads, p \in {P_HIGH, P_Medium} :
        Free(th) /\ add_task(th, D_1_5, p, LastSecond)
CompleteTaskAll ==
    \E th \in Threads, id \in 1..seq : Free(th) /\ complete_task(th, id)
LogWaterAll ==
    WaterAfter(1, <<>>) <= MaxAllWater /\ \E th \in Threads :
        Free(th) /\ log_water(th, 1, <<>>)
LogWaterSelect == \E th \in Threads : log_water_select(th)
LogWaterWrite == \E th \in Threads : log_water_write(th)

NextAll ==
    \/ AddTaskAll \/ AddTaskInsert \/ CompleteTaskAll \/ CompleteTaskUpdate
    \/ ClearTasks \/ LogWaterAll \/ LogWaterSelect \/ LogWaterWrite

SpecAll == Init /\ [][NextAll]_vars

\* --- SpecWater: hydration logging ---
WaterAmounts == {-1, 2}
WaterDates == {<<>>, <<2024, 2, 27>>}

LogWater ==
    \E th \in Threads, a \in WaterAmounts, d \in WaterDates :
        /\ Free(th)
        /\ WaterAfter(a, d) <= MaxWater
        /\ WaterAfter(a, d) >= 0 - MaxWater
        /\ log_water(th, a, d)
NextDayWater == today < Epoch + MaxWaterDay /\ Tick

NextWater == LogWater \/ LogWaterSelect \/ LogWaterWrite \/ NextDayWater

SpecWater == Init /\ [][NextWater]_vars

\* --- SpecScore: the points of a new task ---
ScoreDurations == {D_0, D_0_1m, D_0_1, D_0_25, D_0_3, D_1_5, D_2_5, D_10}
ScorePriorities == {P_high, P_High, P_HIGH, P_Medium, P_low, P_highx}

AddTaskScore ==
    seq + Adding < MaxScoreTasks /\ \E d \in ScoreDurations, p \in ScorePriorities :
        add_task(1, d, p, Noon)

NextScore == AddTaskScore \/ AddTaskInsert \/ ClearTasks

SpecScore == Init /\ [][NextScore]_vars

\* --- SpecDaily: one task a day, worth 0 or 50 points, completed before the
\* --- day ends, for the long streaks; thread 1 asks for the achievements while
\* --- thread 2 adds and completes
DoneToday ==
    \E i \in Completed(tasks) : Substr10(tasks[i].created_at) = IsoToday(today)

AddTaskDaily ==
    ~AddedToday /\ \E d \in {D_0, D_5} : add_task(2, d, P_Medium, Noon)
CompleteTaskDaily == seq > 0 /\ complete_task(2, seq)
AddTaskInsertDaily == add_task_insert(2)
CompleteTaskUpdateDaily == complete_task_update(2)
Achievements == achievements(1)
AchievementsDays == achievements_days(1)
AchievementsReturn == achievements_return(1)
NextDayDaily == today < Epoch + MaxStreakDays /\ DoneToday /\ Tick

NextDaily ==
    \/ AddTaskDaily \/ AddTaskInsertDaily \/ CompleteTaskDaily
    \/ CompleteTaskUpdateDaily
    \/ Achievements \/ AchievementsDays \/ AchievementsReturn \/ NextDayDaily

SpecDaily == Init /\ [][NextDaily]_vars

\* ---------------------------------------------------------------------------
\* Properties
\* ---------------------------------------------------------------------------
\* a step in which a call of the tool op returns
Called(op) == calls' # calls /\ result'.op = op

\* a step in which a call of the tool op begins and returns
OneStep(op) == Called(op) /\ \A t \in Threads : pc'[t].op = pc[t].op

\* a step in which thread th begins a call of the tool op that does not return yet
Begins(th, op) == pc[th].op = "idle" /\ pc'[th].op = op

\* C1: when a call of complete_task on a stored id is the next call after a
\* call of complete_task on the same id (it began after that call returned,
\* and no other call returned in between), it answers "Task already
\* completed.", and the task rows and total_points() are what they were after
\* the first call.
C1_Idempotent ==
    [][(/\ result.op = "complete_task"
        /\ Called("complete_task")
        /\ result'.alone
        /\ result'.task_id = result.task_id
        /\ result.task_id \in DOMAIN tasks)
       => (/\ result'.msg = "Task already completed."
           /\ tasks' = tasks
           /\ total_points' = total_points)]_vars

C1_Witness ==
    /\ result.op = "complete_task"
    /\ result.msg = "Task already completed."
    /\ result.task_id \in Completed(tasks)
    /\ total_points > 0

\* C2: streak(), run in a state, is the largest k such that each of the days
\* today, today-1, ..., today-(k-1) is the creation date of some completed
\* task: 0 without tasks, without completed tasks or without a completed task
\* created today, 3 for completed tasks created on exactly today, today-1 and
\* today-2, and 1 for completed tasks created on exactly today and today-2;
\* and a call of streak() during which no other call returned has returned
\* that number, for as long as the day it has read is the current day.
DoneOn(i) ==
    \E id \in Completed(tasks) : Substr10(tasks[id].created_at) = FromOrdinal(today - i)

DoneDays == {Substr10(tasks[id].created_at) : id \in Completed(tasks)}

C2_Streak ==
    /\ streak >= 0
    /\ \A i \in 0..(streak - 1) : DoneOn(i)
    /\ ~DoneOn(streak)
    /\ (DOMAIN tasks = {} \/ Completed(tasks) = {} \/ ~DoneOn(0)) => streak = 0
    /\ DoneDays = {FromOrdinal(today), FromOrdinal(today - 1), FromOrdinal(today - 2)}
          => streak = 3
    /\ DoneDays = {FromOrdinal(today), FromOrdinal(today - 2)} => streak = 1
    /\ (result.op = "streak" /\ result.alone /\ result.today = today)
          => result.current_streak_days = streak

C2_Witness ==
    /\ DoneDays = {FromOrdinal(today), FromOrdinal(today - 1), FromOrdinal(today - 2)}
    /\ result.op = "streak"
    /\ result.alone
    /\ result.today = today
    /\ result.current_streak_days = 3

\* C3: the list achievements() has returned holds each badge exactly when the
\* points and the streak the call has read meet its threshold (points >= 50,
\* points >= 100, streak >= 3, streak >= 7), is the single placeholder exactly
\* when points < 50 and streak < 3, and is never empty; when no other call
\* returned while it ran, and the day it has read is still the current day,
\* the points and the streak it has read are total_points() and streak().
Elems(q) == {q[i] : i \in DOMAIN q}

C3_Badges ==
    result.op = "achievements"
       => LET a == result.unlocked
              p == result.total
              k == result.streak_days
          IN  /\ (BadgeRookie \in Elems(a)) <=> (p >= 50)
              /\ (BadgePro \in Elems(a)) <=> (p >= 100)
              /\ (Badge3Day \in Elems(a)) <=> (k >= 3)
              /\ (Badge7Day \in Elems(a)) <=> (k >= 7)
              /\ (a = <<KeepGoing>>) <=> (p < 50 /\ k < 3)
              /\ (p >= 100 /\ k >= 7)
                    => Elems(a) = {BadgeRookie, BadgePro, Badge3Day, Badge7Day}
                       /\ Len(a) = 4
              /\ (p = 0 /\ k = 0) => a = <<KeepGoing>>
              /\ a # <<>>
              /\ (result.alone /\ result.today = today)
                    => (p = total_points /\ k = streak)

C3_Witness ==
    /\ result.op = "achievements"
    /\ result.alone
    /\ total_points >= 100
    /\ streak >= 7
    /\ result.unlocked = <<BadgeRookie, BadgePro, Badge3Day, Badge7Day>>

\* C4 as claimed: clear_tasks empties the task table and the water-log table
\* and resets the id counter, so that the next add_task creates task 1.
C4_ClearsEverything ==
    [][Called("clear_tasks")
       => (/\ DOMAIN tasks' = {}
           /\ water_logs' = {}
           /\ NextRowid(tasks', seq') = 1)]_vars

\* C4 as amended: clear_tasks empties the task table and nothing else; the
\* water-log table and the id counter are left as they were, so that the first
\* add_task after it creates the task whose id follows the largest id ever
\* assigned.
C4_ClearsTasksOnly ==
    /\ [][Called("clear_tasks")
          => (/\ DOMAIN tasks' = {}
              /\ water_logs' = water_logs
              /\ seq' = seq
              /\ NextRowid(tasks', seq') = seq + 1)]_vars
    /\ [][(result.op = "clear_tasks" /\ Called("add_task"))
          => DOMAIN tasks' = {seq + 1}]_vars

C4_Witness ==
    /\ result.op = "add_task"
    /\ water_logs # {}
    /\ Cardinality(DOMAIN issued) >= 2
    /\ DOMAIN tasks = {seq}

\* C5: every add_task gives the new task a positive id that is greater than
\* every id assigned before, also after clear_tasks has deleted the tasks
\* that held them; no id is assigned twice.
C5_FreshIds ==
    [][Called("add_task")
       => (/\ Cardinality(DOMAIN tasks' \ DOMAIN tasks) = 1
           /\ DOMAIN tasks \subseteq DOMAIN tasks'
           /\ \A id \in DOMAIN tasks' \ DOMAIN tasks :
                 /\ id > 0
                 /\ id \notin DOMAIN issued
                 /\ \A j \in DOMAIN issued : id > j)]_vars

C5_Witness ==
    /\ result.op = "add_task"
    /\ Cardinality(DOMAIN issued) = MaxTasks
    /\ Cardinality(DOMAIN tasks) = 1
    /\ \E id \in DOMAIN tasks : id = MaxTasks

\* C6: the points add_task stores for a new task are those it computes from
\* the duration and the priority it stores, no step changes the points, the
\* duration or the priority of a task that stays in the table, and the points
\* complete_task reports are the points stored when the task was created.
C6_PointsFixed ==
    /\ [][\A id \in DOMAIN tasks' \ DOMAIN tasks :
             /\ tasks'[id].points
                    = Points(tasks'[id].duration_hours, tasks'[id].priority)
             /\ issued'[id] = tasks'[id].points]_vars
    /\ [][\A id \in DOMAIN tasks \cap DOMAIN tasks' :
             /\ tasks'[id].points = tasks[id].points
             /\ tasks'[id].duration_hours = tasks[id].duration_hours
             /\ tasks'[id].priority = tasks[id].priority]_vars
    /\ [](\A id \in DOMAIN tasks : tasks[id].points = issued[id])
    /\ []((result.op = "complete_task" /\ result.msg = "completed! You earned")
             => result.points = issued[result.task_id])

C6_Witness ==
    /\ result.op = "log_water"
    /\ \E i \in Completed(tasks), j \in DOMAIN tasks \ Completed(tasks) :
          tasks[i].points = 20 /\ tasks[j].points = 15

\* C7: a call of complete_task that finds no task with its id answers "Task
\* not found." at once and leaves every task row, hence total_points() and
\* streak(), unchanged; it never goes on to the UPDATE.
C7_NotFound ==
    /\ [][(OneStep("complete_task") /\ result'.task_id \notin DOMAIN tasks)
          => (/\ result'.msg = "Task not found."
              /\ tasks' = tasks
              /\ total_points' = total_points
              /\ streak' = streak)]_vars
    /\ [][\A th \in Threads :
             Begins(th, "complete_task") => pc'[th].task_id \in DOMAIN tasks]_vars

C7_Witness ==
    /\ result.op = "complete_task"
    /\ result.msg = "Task not found."
    /\ result.task_id \in DOMAIN issued
    /\ Completed(tasks) # {}

\* C8 as claimed: the stored points are floor(duration_hours * 10) plus 5
\* exactly when the priority is "high" in any letter case, and for one
\* priority they do not decrease when duration_hours grows.
RECURSIVE BitsLeq(_, _)
BitsLeq(a, b) ==
    IF Len(a) # Len(b) THEN Len(a) < Len(b)
    ELSE IF a = <<>> THEN TRUE
    ELSE IF a[Len(a)] # b[Len(b)] THEN a[Len(a)] < b[Len(b)]
    ELSE BitsLeq(SubSeq(a, 1, Len(a) - 1), SubSeq(b, 1, Len(b) - 1))

RealLeq(x, y) ==
    LET lo == IF x.e < y.e THEN x.e ELSE y.e
    IN  BitsLeq(Trim(ShiftL(x.m, x.e - lo)), Trim(ShiftL(y.m, y.e - lo)))

Bonus(priority) == IF Lower(priority) = STR_high THEN 5 ELSE 0

C8_FloorPlusBonus ==
    /\ \A id \in DOMAIN tasks :
          tasks[id].points =
              IntOfFloat(FloatTimes10(Double(tasks[id].duration_hours)))
                  + Bonus(tasks[id].priority)
    /\ \A i, j \in DOMAIN tasks :
          (/\ tasks[i].priority = tasks[j].priority
           /\ RealLeq(Double(tasks[i].duration_hours), Double(tasks[j].duration_hours)))
             => tasks[i].points <= tasks[j].points

\* C9: total_points() is the sum of the points of the completed tasks, pending
\* tasks counting for nothing, and is the number 0 when no task is completed,
\* as right after clear_tasks.
RECURSIVE Realized(_, _)
Realized(t, ids) ==
    IF ids = {} THEN 0
    ELSE LET i == CHOOSE j \in ids : \A k \in ids : k <= j
         IN  (IF t[i].completed = 1 THEN t[i].points ELSE 0) + Realized(t, ids \ {i})

C9_Total ==
    /\ total_points = Realized(tasks, DOMAIN tasks)
    /\ Completed(tasks) = {} => total_points = 0
    /\ result.op = "clear_tasks" => total_points = 0

C9_Witness ==
    /\ total_points = 32
    /\ \E i \in DOMAIN tasks : tasks[i].completed = 0 /\ tasks[i].points = 30

\* C10 as claimed: the total of every date is never negative and never
\* decreases; a log_water call leaves exactly one entry for its date, holding
\* the amount added to what the date held before (nothing, for its first
\* call), returns that total, and leaves the entries of other dates alone.
WaterOf(w, d) == IF SelectWater(w, d) = {} THEN 0
                 ELSE (CHOOSE r \in SelectWater(w, d) : TRUE).water_liters

LogDates(w) == {r.log_date : r \in w}

C10_WaterGrows ==
    /\ [](\A r \in water_logs : r.water_liters >= 0)
    /\ [][\A d \in LogDates(water_logs) : WaterOf(water_logs', d) >= WaterOf(water_logs, d)]_vars
    /\ [][Called("log_water")
          => (/\ result'.status # "IntegrityError"
              /\ Cardinality(SelectWater(water_logs', result'.date)) = 1
              /\ WaterOf(water_logs', result'.date)
                    = WaterOf(water_logs, result'.date) + result'.amount
              /\ result'.total_water = WaterOf(water_logs', result'.date)
              /\ \A r \in water_logs : r.log_date # result'.date => r \in water_logs')]_vars

====
